---- MODULE Spec2Model ----
(***************************************************************************)
(* Model of LaueTools/graingraph.py: recognition of grains from the matrix *)
(* of mutual angular distances of the spots of a data file.                *)
(*                                                                         *)
(* Angles are integers in thousandths of a degree (0.05 deg is 50).        *)
(* Python arrays and lists are sequences; Python's 0-based index i of an   *)
(* array a is read with At(a, i).  Node numbers, row numbers and the       *)
(* indices returned by argsort / argmax / find_closest are 0-based, as in  *)
(* the code.                                                               *)
(***************************************************************************)
EXTENDS Integers, Sequences, FiniteSets, TLC

VARIABLES
    pc,             \* position in the run of give_bestclique
    nb_of_spots,    \* selection count, then the count returned by TableDistance_exp
    Tabledistance,  \* matrix of mutual angular distances of the selected spots
    ang_tol,        \* angular tolerance
    adjencymat,     \* adjacency matrix
    cliques,        \* list(find_cliques(GGraw)), computed inside NX.cliques_containing_node
    nodes,          \* the query: [isint |-> TRUE, v |-> node] or [isint |-> FALSE, l |-> list of nodes]
    C0,             \* result of NX.cliques_containing_node: a list of cliques (one node) or a dict node -> list
    k,              \* loop index of give_bestclique over the entered nodes
    best_list,      \* the value built / returned by give_bestclique
    err,            \* the exception that ended the run, "" when none
    ar_distances,   \* the sorted table of possible distances given to create_AdjencyMatrix
    hkl,            \* the argument of FilterHarmonics_2: a list of 3-component vectors
    return_indices_toremove,  \* the flag argument of FilterHarmonics_2
    cliques_of_harmonics,     \* the groups of harmonics found by FilterHarmonics_2
    ret,            \* the value returned by FilterHarmonics_2
    ret2,           \* the value returned by FilterHarmonics_2 applied to its own output
    angles,         \* the matrix of angles computed by FilterHarmonics_2
    datafile,       \* the data file read by TableDistance_exp: its columns, header line excluded
    nb_asked,       \* the selection count given to TableDistance_exp
    mydata,         \* the arrays returned by createrawdata, one record per element
    sorted_data     \* the rows of sorted_data in TableDistance_exp

\* the variables of the run of FilterHarmonics_2
harmvars == <<hkl, return_indices_toremove, cliques_of_harmonics, ret, ret2, angles>>

\* the arguments and the local arrays of a call of TableDistance_exp
tablevars == <<datafile, nb_asked, mydata, sorted_data>>

vars == <<pc, nb_of_spots, Tabledistance, ang_tol,
          adjencymat, cliques, nodes, C0, k, best_list, err, ar_distances,
          hkl, return_indices_toremove, cliques_of_harmonics, ret, ret2, angles,
          datafile, nb_asked, mydata, sorted_data>>

----------------------------------------------------------------------------
(* Bounds of the model *)

\* largest number of data lines of a file
MaxRows == 5
\* largest length of a list of query nodes
MaxQuery == 2
\* largest node named in a list of query nodes
MaxListNode == 2

\* intensities drawn for the data lines
Intensities == {1, 2}
\* angular distances drawn for two different data lines: 8160 is 0.03 deg away
\* from the first entry of the table of cubic distances, 9000 matches no entry
DistValues == {8160, 9000}
\* tolerances drawn for ang_tol (test_findcliques uses 0.05 deg)
TolValues == {0, 50}

\* largest number of rows of a matrix of distances given to create_AdjencyMatrix
\* by a caller of its own
MaxAdjRows == 3
\* the tables of possible distances of such a caller: none, or 10, 20, 30 deg
AdjTables == {<<>>, <<10000, 20000, 30000>>}
\* the distances of its matrix: an entry of the table, 0.001 deg above it, and
\* 5 deg from the nearest entries
AdjDistValues == {10000, 10001, 25000}
\* the tolerances it passes: negative, exact match, 0.001 deg, 1 deg and 12 deg
AdjTolValues == {0 - 1, 0, 1, 1000, 12000}

\* largest number of data lines of a file whose reading is followed array by array
MaxTableRows == 4

\* largest number of vectors of a list given to FilterHarmonics_2
MaxHkl == 4
\* the vectors of such a list: [1,1,1] with its harmonic and its opposite,
\* [1,0,-1] with its harmonic, and [1,1,0]
HklValues == {<<1, 1, 1>>, <<2, 2, 2>>, <<0 - 1, 0 - 1, 0 - 1>>,
              <<1, 0, 0 - 1>>, <<2, 0, 0 - 2>>, <<1, 1, 0>>}

----------------------------------------------------------------------------
(* Helpers for arrays *)

At(a, i) == a[i + 1]

Range(s) == {s[i] : i \in DOMAIN s}

Abs(x) == IF x < 0 THEN 0 - x ELSE x

MinOf(S) == CHOOSE x \in S : \A y \in S : x <= y

MaxOf(S) == CHOOSE x \in S : \A y \in S : y <= x

min(a, b) == IF a <= b THEN a ELSE b

\* the elements of a finite set of integers as an ascending sequence
RECURSIVE Ascending(_)
Ascending(S) ==
    IF S = {} THEN <<>> ELSE <<MinOf(S)>> \o Ascending(S \ {MinOf(S)})

\* a[::-1]
Reversed(a) == [i \in 1..Len(a) |-> a[Len(a) + 1 - i]]

\* np.argsort(a): the sort of a short array is an insertion sort, which keeps
\* equal values in their original order
np_argsort(a) ==
    LET n == Len(a)
        rank(i) == Cardinality({j \in 0..(n - 1) :
                        At(a, j) < At(a, i) \/ (At(a, j) = At(a, i) /\ j < i)})
    IN  [p \in 1..n |-> CHOOSE i \in 0..(n - 1) : rank(i) = p - 1]

\* np_sort with the sort forgotten
np_sort_missing(a) == a

\* np.sort(a) of a list of integers
np_sort(a) == LET s == np_argsort(a) IN [p \in 1..Len(a) |-> At(a, s[p])]

\* np_argmax taking the last occurrence of the maximum
np_argmax_last(a) ==
    MaxOf({i \in 0..(Len(a) - 1) : \A j \in 0..(Len(a) - 1) : At(a, j) <= At(a, i)})

\* np_argmax replaced by np.argmin
np_argmin(a) ==
    MinOf({i \in 0..(Len(a) - 1) : \A j \in 0..(Len(a) - 1) : At(a, i) <= At(a, j)})

\* np.argmax(a): index of the first occurrence of the maximum
np_argmax(a) ==
    MinOf({i \in 0..(Len(a) - 1) : \A j \in 0..(Len(a) - 1) : At(a, j) <= At(a, i)})

\* a[index_array]
Take(a, index) == [p \in 1..Len(index) |-> At(a, index[p])]

----------------------------------------------------------------------------
(* read_disttable *)

read_disttable ==
    << 8130, 10025, 10893, 11490, 14763, 15793, 17024, 17548,
       17715, 18435, 19107, 19286, 19471, 21617, 21787, 22208,
       24095, 25239, 25352, 25842, 26565, 27017, 27266, 29206,
       29496, 30000, 31003, 31482, 31948, 32312, 32513, 33211,
       33557, 35097, 35264, 36310, 36699, 36870, 38942, 39232,
       40203, 40291, 40479, 40893, 41810, 42392, 42450, 43089,
       44415, 45000, 45289, 47124, 47459, 47608, 47870, 48190,
       49107, 49797, 49860, 49995, 50479, 50768, 51887, 53130,
       53301, 53396, 53729, 54736, 55105, 55462, 56789, 56938,
       57688, 58194, 58518, 58909, 59530, 59833, 60000, 60504,
       61086, 61439, 61874, 62964, 63435, 63549, 63612, 64623,
       64761, 64896, 65003, 65062, 65905, 66139, 66422, 67580,
       67792, 68583, 68988, 69075, 70529, 70893, 71196, 71565,
       72025, 72452, 72542, 72654, 73221, 73398, 73570, 74207,
       74499, 75037, 75313, 75748, 76367, 77079, 77396, 78463,
       78904, 79007, 79107, 79480, 79737, 79975, 80406, 80726,
       81787, 81870, 82179, 82251, 82582, 83135, 83621, 83949,
       84232, 84261, 84784, 84889, 85152, 85904, 90000 >>

----------------------------------------------------------------------------
(* createrawdata and TableDistance_exp *)

\* default value of the parameter nblineskip of createrawdata
nblineskip == 1

\* np.loadtxt(skiprows=1) gives a 2-dimensional array only for two data lines
\* or more; the slices _tempdata[nblineskip:, col] fail on anything else
createrawdata_fails(nlines) == nlines < 2

\* the data lines (0-based, header excluded) kept by _tempdata[nblineskip:, ...]
createrawdata_lines(nlines) ==
    [p \in 1..(nlines - nblineskip) |-> p - 1 + nblineskip]

\* the intensity column returned by createrawdata
createrawdata_I(I) == Take(I, createrawdata_lines(Len(I)))

\* mydata = createrawdata(filename, col_Int): one record per element of the
\* returned arrays, line being the data line (0-based, header excluded) that
\* theta and chi come from and I the intensity
createrawdata(file) ==
    LET lines == createrawdata_lines(Len(file.I))
    IN  [p \in 1..Len(lines) |-> [line |-> lines[p], I |-> At(file.I, lines[p])]]

\* neither branch of TableDistance_exp binds sorted_int_index
TableDistance_exp_unbound(nb) == ~(nb > 0) /\ ~(nb = 0 - 1)

\* upto taken as the count asked for
TableDistance_exp_upto_asked(nbp, nb) == IF nb > 0 THEN nb ELSE nbp

\* upto, the count returned by TableDistance_exp
TableDistance_exp_upto(nbp, nb) == IF nb > 0 THEN min(nb, nbp) ELSE nbp

\* sorted_int_index: positions in the arrays of createrawdata, most intense first
sorted_int_index(data_I, nb) ==
    LET nbp == Len(data_I)
        byint == Reversed(np_argsort(data_I))
    IN  IF nb > 0 THEN SubSeq(byint, 1, min(nb, nbp)) ELSE byint

\* angulardisttable: the mutual distances of the selected spots
TableDistance_exp(I, dist, nb) ==
    LET lines == createrawdata_lines(Len(I))
        sel == sorted_int_index(createrawdata_I(I), nb)
        line(a) == At(lines, At(sel, a))
    IN  [a \in 1..Len(sel) |->
            [b \in 1..Len(sel) |-> At(At(dist, line(a - 1)), line(b - 1))]]

\* the rows [Theta, Chi, Intens] of sorted_data: the elements of mydata at the
\* positions sorted_int_index
sorted_data_rows(file, nb) ==
    LET data == createrawdata(file)
        sel == sorted_int_index(createrawdata_I(file.I), nb)
    IN  [a \in 1..Len(sel) |->
            [line |-> At(data, sel[a]).line, Intens |-> At(data, sel[a]).I]]

----------------------------------------------------------------------------
(* create_AdjencyMatrix *)

\* |nearest - x| for the entry of the sorted table nearest to x
NearestGap(table, x) == MinOf({Abs(table[r] - x) : r \in DOMAIN table})

\* GT.find_closest(input_array, target_array, tol)[1]: the indices of the
\* elements of target_array that have an entry of input_array within tol
find_closest_accept(input_array, target_array, tol) ==
    Ascending({j \in 0..(Len(target_array) - 1) :
                  /\ Len(input_array) > 0
                  /\ NearestGap(input_array, At(target_array, j)) <= tol})

\* PutPositions without the shift elem * nb_of_spots: every row written in row 0
PutPositions_norow(Tdist, ReferenceTable, tol, n) ==
    UNION {Range(find_closest_accept(ReferenceTable, At(Tdist, elem), tol)) :
              elem \in 0..(n - 1)}

\* PutPositions reading Tabledistance[0] for every row
PutPositions_firstrow(Tdist, ReferenceTable, tol, n) ==
    UNION {{j + elem * n :
               j \in Range(find_closest_accept(ReferenceTable, At(Tdist, 0), tol))} :
              elem \in 0..(n - 1)}

\* PutPositions with the loop stopping one row early: np.arange(nb_of_spots - 1)
PutPositions_skiplast(Tdist, ReferenceTable, tol, n) ==
    UNION {{j + elem * n :
               j \in Range(find_closest_accept(ReferenceTable, At(Tdist, elem), tol))} :
              elem \in 0..(n - 2)}

\* the flat positions where the list comprehension of create_AdjencyMatrix
\* puts 1: for each row elem, the accepted indices shifted by elem * nb_of_spots
PutPositions(Tdist, ReferenceTable, tol, n) ==
    UNION {{j + elem * n :
               j \in Range(find_closest_accept(ReferenceTable, At(Tdist, elem), tol))} :
              elem \in 0..(n - 1)}

\* Tabledistance[elem] or mytab.put raises IndexError
create_AdjencyMatrix_fails(Tdist, ReferenceTable, tol, n) ==
    \/ n > Len(Tdist)
    \/ \E p \in PutPositions(Tdist, ReferenceTable, tol, n) : p >= n * n

\* create_AdjencyMatrix starting from np.ones instead of np.zeros
create_AdjencyMatrix_ones(Tdist, ReferenceTable, tol, n) ==
    [i \in 1..n |-> [j \in 1..n |-> 1]]

\* mytab after the puts, then np.reshape(mytab, (nb_of_spots, nb_of_spots))
create_AdjencyMatrix(Tdist, ReferenceTable, tol, n) ==
    LET ones == PutPositions(Tdist, ReferenceTable, tol, n)
        mytab == [p \in 1..(n * n) |-> IF (p - 1) \in ones THEN 1 ELSE 0]
    IN  [i \in 1..n |-> [j \in 1..n |-> At(mytab, (i - 1) * n + (j - 1))]]

----------------------------------------------------------------------------
(* The graph and its cliques (networkx) *)

\* NX.to_networkx_graph(adjencymat, create_using=NX.Graph()): nodes 0..n-1 and
\* an undirected edge for every non-zero entry; find_cliques leaves self-loops
\* out of the neighbourhoods
GraphNodes(A) == 0..(Len(A) - 1)

GraphAdj(A) ==
    [u \in GraphNodes(A) |->
        {v \in GraphNodes(A) :
            v # u /\ (At(At(A, u), v) # 0 \/ At(At(A, v), u) # 0)}]

\* the pivot of find_cliques: max(subg, key=lambda u: len(cand & adj[u])),
\* the first maximum in the iteration order of the set (ascending integers)
Pivot(adj, subg, cand) ==
    MinOf({u \in subg : \A w \in subg :
              Cardinality(cand \cap adj[w]) <= Cardinality(cand \cap adj[u])})

\* the loop of find_cliques over ext_u (popped in ascending order) at one
\* level of the search, and the levels below it; Q is the clique being built
RECURSIVE ExtLoop(_, _, _, _, _)
ExtLoop(adj, subg, cand, ext_u, Q) ==
    IF ext_u = {} THEN <<>>
    ELSE LET q == MinOf(ext_u)
             cand1 == cand \ {q}
             Q1 == Append(Q, q)
             subg_q == subg \cap adj[q]
             cand_q == cand1 \cap adj[q]
             found == IF subg_q = {} THEN <<Q1>>
                      ELSE IF cand_q # {}
                           THEN ExtLoop(adj, subg_q, cand_q,
                                        cand_q \ adj[Pivot(adj, subg_q, cand_q)], Q1)
                           ELSE <<>>
         IN  found \o ExtLoop(adj, subg, cand1, ext_u \ {q}, Q)

\* list(NX.find_cliques(G)): the maximal cliques in the order they are yielded
find_cliques(A) ==
    LET adj == GraphAdj(A)
        G == GraphNodes(A)
    IN  IF G = {} THEN <<>>
        ELSE ExtLoop(adj, G, G, G \ adj[Pivot(adj, G, G)], <<>>)

InClique(v, c) == v \in Range(c)

\* cliques_containing_one looking at the first node of each clique only
cliques_containing_one_first(cliquelist, v) ==
    SelectSeq(cliquelist, LAMBDA c : c[1] = v)

\* NX.cliques_containing_node(G, nodes=v): [c for c in cliques if v in c]
cliques_containing_one(cliquelist, v) ==
    SelectSeq(cliquelist, LAMBDA c : InClique(v, c))

\* cliques_containing_node replaced by the whole-graph enumeration
\* NX.find_cliques, as in test(): the cliques are not filtered by node
cliques_containing_node_all(cliquelist, query) ==
    IF query.isint THEN cliquelist
    ELSE [v \in Range(query.l) |-> cliquelist]

\* NX.cliques_containing_node(G, nodes=query, cliques=None) once cliques is
\* list(find_cliques(G)): a list of cliques for one node, a dict
\* {v: list of cliques} for a list of nodes
cliques_containing_node(cliquelist, query) ==
    IF query.isint THEN cliques_containing_one(cliquelist, query.v)
    ELSE [v \in Range(query.l) |-> cliques_containing_one(cliquelist, v)]

----------------------------------------------------------------------------
(* bestclique_oneNode *)

\* lon_C = np.array(list(map(len, CliquesList)))
lon_C(CliquesList) == [p \in 1..Len(CliquesList) |-> Len(CliquesList[p])]

\* np.argmax of an empty array raises ValueError
bestclique_oneNode_fails(CliquesList) == Len(CliquesList) = 0

\* np.sort(CliquesList[np.argmax(lon_C)])
bestclique_oneNode(CliquesList) ==
    np_sort(At(CliquesList, np_argmax(lon_C(CliquesList))))

----------------------------------------------------------------------------
(* The run of give_bestclique *)

\* the files: M data lines after the header line; I is the intensity column
\* and dist the angular distance between the (2theta, chi) directions of two
\* data lines (symmetric, 0 on the diagonal).
Pairs(M) == {pr \in (1..M) \X (1..M) : pr[1] < pr[2]}

SymmetricMatrix(M, d) ==
    [a \in 1..M |-> [b \in 1..M |->
        IF a = b THEN 0
        ELSE IF a < b THEN d[<<a, b>>] ELSE d[<<b, a>>]]]

\* the file of M data lines with intensities i and distances d
File(M, i, d) ==
    [I |-> [a \in 1..M |-> i[a]], dist |-> SymmetricMatrix(M, d)]

\* the distances of a file whose first data line is d1 away from every other
\* line and whose other lines are dr away from each other; the intensity of
\* every line, the first included, is free
FirstLineAt(M, d1, dr) ==
    [pr \in Pairs(M) |-> IF pr[1] = 1 THEN d1 ELSE dr[<<pr[1] - 1, pr[2] - 1>>]]

\* the selection counts a caller may pass
NbChoices == (0 - 2)..MaxRows

\* the queries a caller may pass for a graph of n nodes: a node from -1 to n,
\* or a list of nodes from 0 to MaxListNode, in the graph or not
Queries(n) ==
    {[isint |-> TRUE, v |-> v] : v \in (0 - 1)..n}
    \cup {[isint |-> FALSE, l |-> l] :
            l \in UNION {[1..len -> 0..MaxListNode] : len \in 0..MaxQuery}}

Init ==
    /\ pc = "start"
    /\ nb_of_spots = 0
    /\ Tabledistance = <<>>
    /\ ang_tol = 0
    /\ adjencymat = <<>>
    /\ cliques = <<>>
    /\ nodes = [isint |-> TRUE, v |-> 0]
    /\ C0 = <<>>
    /\ k = 0
    /\ best_list = <<>>
    /\ err = ""
    /\ ar_distances = <<>>
    /\ hkl = <<>>
    /\ return_indices_toremove = 0
    /\ cliques_of_harmonics = <<>>
    /\ ret = <<>>
    /\ ret2 = <<>>
    /\ angles = <<>>
    /\ datafile = <<>>
    /\ nb_asked = 0
    /\ mydata = <<>>
    /\ sorted_data = <<>>

Raise(e) == pc' = "error" /\ err' = e

\* ar_distances = read_disttable(), then
\* Tabledistance, nb_of_spots = TableDistance_exp(filename, nb_of_spots, col_Int)
CallTableDistance_exp(file, nb) ==
    /\ pc = "start"
    /\ ar_distances' = read_disttable
    /\ IF createrawdata_fails(Len(file.I))
       THEN Raise("IndexError") /\ UNCHANGED <<Tabledistance, nb_of_spots>>
       ELSE IF TableDistance_exp_unbound(nb)
       THEN Raise("UnboundLocalError") /\ UNCHANGED <<Tabledistance, nb_of_spots>>
       ELSE /\ Tabledistance' = TableDistance_exp(file.I, file.dist, nb)
            /\ nb_of_spots' = TableDistance_exp_upto(Len(createrawdata_I(file.I)), nb)
            /\ pc' = "table"
            /\ UNCHANGED err
    /\ UNCHANGED <<ang_tol, adjencymat, cliques, nodes, C0, k, best_list>>
    /\ UNCHANGED harmvars

\* adjencymat = create_AdjencyMatrix(Tabledistance, ar_distances, ang_tol, nb_of_spots)
CallCreate_AdjencyMatrix(tol) ==
    /\ pc = "table"
    /\ ang_tol' = tol
    /\ IF create_AdjencyMatrix_fails(Tabledistance, ar_distances, tol, nb_of_spots)
       THEN Raise("IndexError") /\ UNCHANGED adjencymat
       ELSE /\ adjencymat' = create_AdjencyMatrix(Tabledistance, ar_distances,
                                                  tol, nb_of_spots)
            /\ pc' = "adj"
            /\ UNCHANGED err
    /\ UNCHANGED <<nb_of_spots, Tabledistance, cliques, nodes, C0, k, best_list>>
    /\ UNCHANGED <<ar_distances, harmvars, tablevars>>

\* GGraw = NX.to_networkx_graph(adjencymat, ...), and the first statement of
\* NX.cliques_containing_node(GGraw, ...): cliques = list(find_cliques(GGraw))
CallFind_cliques ==
    /\ pc = "adj"
    /\ cliques' = find_cliques(adjencymat)
    /\ pc' = "graph"
    /\ UNCHANGED <<nb_of_spots, Tabledistance, ang_tol, adjencymat, nodes, C0, k,
                   best_list, err>>
    /\ UNCHANGED <<ar_distances, harmvars, tablevars>>

\* C0 = NX.cliques_containing_node(GGraw, nodes=nodes, cliques=None), the rest of it
CallCliques_containing_node(query) ==
    /\ pc = "graph"
    /\ nodes' = query
    /\ C0' = cliques_containing_node(cliques, query)
    /\ k' = 0
    /\ best_list' = <<>>
    /\ pc' = "cliques"
    /\ UNCHANGED <<nb_of_spots, Tabledistance, ang_tol, adjencymat, cliques, err>>
    /\ UNCHANGED <<ar_distances, harmvars, tablevars>>

\* nodes is an integer: best_list = np.sort(bestclique_oneNode(C0))
\* the best clique sorted in place, in the list of cliques of the query
BestOfOneNode_inplace ==
    /\ pc = "cliques"
    /\ nodes.isint
    /\ IF bestclique_oneNode_fails(C0)
       THEN Raise("ValueError") /\ UNCHANGED <<best_list, C0>>
       ELSE /\ best_list' = np_sort(bestclique_oneNode(C0))
            /\ C0' = [C0 EXCEPT ![np_argmax(lon_C(C0)) + 1] = np_sort(@)]
            /\ pc' = "done"
            /\ UNCHANGED err
    /\ UNCHANGED <<nb_of_spots, Tabledistance, ang_tol,
                   adjencymat, cliques, nodes, k>>
    /\ UNCHANGED <<ar_distances, harmvars, tablevars>>

BestOfOneNode ==
    /\ pc = "cliques"
    /\ nodes.isint
    /\ IF bestclique_oneNode_fails(C0)
       THEN Raise("ValueError") /\ UNCHANGED best_list
       ELSE /\ best_list' = np_sort(bestclique_oneNode(C0))
            /\ pc' = "done"
            /\ UNCHANGED err
    /\ UNCHANGED <<nb_of_spots, Tabledistance, ang_tol,
                   adjencymat, cliques, nodes, C0, k>>
    /\ UNCHANGED <<ar_distances, harmvars, tablevars>>

\* nodes is a list: one turn of "for k in range(len(C0))", reading C0[k]
BestOfListStep ==
    /\ pc = "cliques"
    /\ ~nodes.isint
    /\ k < Cardinality(DOMAIN C0)
    /\ IF k \notin DOMAIN C0
       THEN Raise("KeyError") /\ UNCHANGED <<best_list, k>>
       ELSE IF bestclique_oneNode_fails(C0[k])
       THEN Raise("ValueError") /\ UNCHANGED <<best_list, k>>
       ELSE /\ best_list' = Append(best_list, np_sort(bestclique_oneNode(C0[k])))
            /\ k' = k + 1
            /\ UNCHANGED <<pc, err>>
    /\ UNCHANGED <<nb_of_spots, Tabledistance, ang_tol,
                   adjencymat, cliques, nodes, C0>>
    /\ UNCHANGED <<ar_distances, harmvars, tablevars>>

\* nodes is a list: the loop is over, return best_list
BestOfListReturn ==
    /\ pc = "cliques"
    /\ ~nodes.isint
    /\ k = Cardinality(DOMAIN C0)
    /\ pc' = "done"
    /\ UNCHANGED <<nb_of_spots, Tabledistance, ang_tol,
                   adjencymat, cliques, nodes, C0, k, best_list, err>>
    /\ UNCHANGED <<ar_distances, harmvars, tablevars>>

Next ==
    \/ /\ pc = "start"
       /\ \E M \in 0..MaxRows, nb \in NbChoices :
             \E i \in [1..M -> Intensities], d1 \in DistValues,
                dr \in [Pairs(M - 1) -> DistValues] :
                CallTableDistance_exp(File(M, i, FirstLineAt(M, d1, dr)), nb)
                /\ UNCHANGED tablevars
    \/ pc = "table" /\ \E tol \in TolValues : CallCreate_AdjencyMatrix(tol)
    \/ CallFind_cliques
    \/ pc = "graph" /\ \E query \in Queries(Len(adjencymat)) : CallCliques_containing_node(query)
    \/ BestOfOneNode
    \/ BestOfListStep
    \/ BestOfListReturn

Spec == Init /\ [][Next]_vars

----------------------------------------------------------------------------
(* TableDistance_exp with its arguments and its local arrays kept, followed *)
(* by create_AdjencyMatrix as in give_bestclique                            *)

\* Tabledistance, nb_of_spots = TableDistance_exp(filename, nb_of_spots, col_Int),
\* with mydata and sorted_data as they are when the function ends
RunTableDistance_exp(file, nb) ==
    /\ CallTableDistance_exp(file, nb)
    /\ datafile' = file
    /\ nb_asked' = nb
    /\ mydata' = IF createrawdata_fails(Len(file.I)) THEN <<>> ELSE createrawdata(file)
    /\ sorted_data' = IF createrawdata_fails(Len(file.I)) \/ TableDistance_exp_unbound(nb)
                      THEN <<>>
                      ELSE sorted_data_rows(file, nb)

NextTable ==
    \/ /\ pc = "start"
       /\ \E M \in 0..MaxTableRows, nb \in NbChoices :
             \E i \in [1..M -> Intensities], d1 \in DistValues,
                dr \in [Pairs(M - 1) -> DistValues] :
                RunTableDistance_exp(File(M, i, FirstLineAt(M, d1, dr)), nb)
    \/ pc = "table" /\ \E tol \in TolValues : CallCreate_AdjencyMatrix(tol)

SpecTable == Init /\ [][NextTable]_vars

----------------------------------------------------------------------------
(* create_AdjencyMatrix called on arguments of the caller's own choice,     *)
(* followed by the query of one node of the graph of its matrix            *)

AllPairs(n) == {pr \in (1..n) \X (1..n) : pr[1] < pr[2]}

\* a symmetric matrix of mutual distances of n spots, 0 on the diagonal
DistanceMatrix(n, d) ==
    [a \in 1..n |-> [b \in 1..n |->
        IF a = b THEN 0
        ELSE IF a < b THEN d[<<a, b>>] ELSE d[<<b, a>>]]]

InitAdj ==
    /\ pc = "table"
    /\ \E n \in 0..MaxAdjRows : \E d \in [AllPairs(n) -> AdjDistValues] :
          /\ nb_of_spots = n
          /\ Tabledistance = DistanceMatrix(n, d)
    /\ ar_distances \in AdjTables
    /\ ang_tol = 0
    /\ adjencymat = <<>>
    /\ cliques = <<>>
    /\ nodes = [isint |-> TRUE, v |-> 0]
    /\ C0 = <<>>
    /\ k = 0
    /\ best_list = <<>>
    /\ err = ""
    /\ hkl = <<>>
    /\ return_indices_toremove = 0
    /\ cliques_of_harmonics = <<>>
    /\ ret = <<>>
    /\ ret2 = <<>>
    /\ angles = <<>>
    /\ datafile = <<>>
    /\ nb_asked = 0
    /\ mydata = <<>>
    /\ sorted_data = <<>>

NextAdj ==
    \/ pc = "table" /\ \E tol \in AdjTolValues : CallCreate_AdjencyMatrix(tol)
    \/ CallFind_cliques
    \/ /\ pc = "graph"
       /\ \E v \in (0 - 1)..Len(adjencymat) :
             CallCliques_containing_node([isint |-> TRUE, v |-> v])
    \/ BestOfOneNode

SpecAdj == InitAdj /\ [][NextAdj]_vars

----------------------------------------------------------------------------
(* CrystalParameters.FilterHarmonics_2 *)

\* scalar product of two vectors under the metric np.eye(3)
Dot(a, b) == a[1] * b[1] + a[2] * b[2] + a[3] * b[3]

\* np.round(AngleBetweenNormals(hkl, hkl, np.eye(3)), decimals=9)[i][j] == 0:
\* the angle arccos(a.b / sqrt((a.a)(b.b))) is 0 when the ratio is 1, that is
\* when a.b > 0 and (a.b)^2 = (a.a)(b.b); the angle of two vectors of small
\* integers that are not in that case is far above the rounding of 1e-9 deg
angle_eq_0(a, b) == Dot(a, b) > 0 /\ Dot(a, b) * Dot(a, b) = Dot(a, a) * Dot(b, b)

\* angles == 0, element by element
angles_eq_0(h) ==
    [i \in 1..Len(h) |-> [j \in 1..Len(h) |-> angle_eq_0(h[i], h[j])]]

\* np.eye(3)
np_eye3 == <<(<<1, 0, 0>>), (<<0, 1, 0>>), (<<0, 0, 1>>)>>

\* the product v1 . metrics . v2
Inner(v1, metrics, v2) ==
    LET row(r) == metrics[r][1] * v2[1] + metrics[r][2] * v2[2] + metrics[r][3] * v2[3]
    IN  v1[1] * row(1) + v1[2] * row(2) + v1[3] * row(3)

\* the squares of the cosines of 0, 1, ..., 90 deg, in millionths
cos2_table ==
    << 1000000, 999695, 998782, 997261, 995134, 992404, 989074, 985148,
       980631, 975528, 969846, 963592, 956773, 949397, 941474, 933013,
       924024, 914519, 904508, 894005, 883022, 871572, 859670, 847329,
       834565, 821394, 807831, 793893, 779596, 764960, 750000, 734736,
       719186, 703368, 687303, 671010, 654508, 637819, 620961, 603956,
       586824, 569587, 552264, 534878, 517450, 500000, 482550, 465122,
       447736, 430413, 413176, 396044, 379039, 362181, 345492, 328990,
       312697, 296632, 280814, 265264, 250000, 235040, 220404, 206107,
       192169, 178606, 165435, 152671, 140330, 128428, 116978, 105995,
       95492, 85481, 75976, 66987, 58526, 50603, 43227, 36408,
       30154, 24472, 19369, 14852, 10926, 7596, 4866, 2739,
       1218, 305, 0 >>

\* np.arccos(n / sqrt(d)) in thousandths of a degree, for d > 0 and the ratio
\* in [-1, 1]: the number of whole degrees whose cosine is above |ratio|,
\* taken from 0 for n >= 0 and from 180 for n < 0.  The value is exact where
\* the ratio is 1, 0 or -1 and is a whole number of degrees elsewhere.
arccos_deg(n, d) ==
    LET acute == Cardinality({t \in 1..Len(cos2_table) :
                                 cos2_table[t] * d > n * n * 1000000})
    IN  IF n >= 0 THEN 1000 * acute ELSE 1000 * (180 - acute)

\* GT.AngleBetweenVectors(Vectors1, Vectors2, metrics): the matrix of the
\* angles arccos(v1.M.v2 / sqrt((v1.M.v1)(v2.M.v2))) in degrees
AngleBetweenVectors(Vectors1, Vectors2, metrics) ==
    [i \in 1..Len(Vectors1) |-> [j \in 1..Len(Vectors2) |->
        arccos_deg(Inner(Vectors1[i], metrics, Vectors2[j]),
                   Inner(Vectors1[i], metrics, Vectors1[i])
                      * Inner(Vectors2[j], metrics, Vectors2[j]))]]

\* AngleBetweenNormals taking np.abs of the indices, a normal and its opposite
\* being then the same vector
AngleBetweenNormals_abs(HKL1s, HKL2s, Gstar) ==
    LET absolute(V) == [i \in 1..Len(V) |-> <<Abs(V[i][1]), Abs(V[i][2]), Abs(V[i][3])>>]
    IN  AngleBetweenVectors(absolute(HKL1s), absolute(HKL2s), Gstar)

\* AngleBetweenNormals(HKL1s, HKL2s, Gstar)
AngleBetweenNormals(HKL1s, HKL2s, Gstar) ==
    AngleBetweenVectors(HKL1s, HKL2s, Gstar)

\* np.ravel of a square matrix
np_ravel(m) ==
    LET n == Len(m)
    IN  [p \in 1..(n * n) |-> At(At(m, (p - 1) \div n), (p - 1) % n)]

\* GT.indices_in_flatTriuMatrix(n): the positions, in the flattened n*n
\* matrix, of the elements above the diagonal, row after row
indices_in_flatTriuMatrix(n) ==
    Ascending({pr[1] * n + pr[2] :
                  pr \in {q \in (0..(n - 1)) \X (0..(n - 1)) : q[1] < q[2]}})

\* pos_zeros testing angle_pairs >= 0: every pair is taken
pos_zeros_all(angle_pairs) ==
    Ascending(0..(Len(angle_pairs) - 1))

\* pos_zeros = np.where(angle_pairs == 0)[0]
pos_zeros(angle_pairs) ==
    Ascending({p \in 0..(Len(angle_pairs) - 1) : At(angle_pairs, p)})

\* GT.indices_in_TriuMatrix(ar_indices, n): the [i, j] of flat positions
indices_in_TriuMatrix(ar_indices, n) ==
    [p \in 1..Len(ar_indices) |-> <<ar_indices[p] \div n, ar_indices[p] % n>>]

\* the elements connected to those of S by the pairs
RECURSIVE Connected(_, _)
Connected(pairs, S) ==
    LET T == S \cup {pr[2] : pr \in {q \in Range(pairs) : q[1] \in S}}
               \cup {pr[1] : pr \in {q \in Range(pairs) : q[2] \in S}}
    IN  IF T = S THEN S ELSE Connected(pairs, T)

\* the lists of a set of disjoint sets of integers, by smallest element
RECURSIVE ListsOf(_)
ListsOf(sets) ==
    IF sets = {} THEN <<>>
    ELSE LET first == CHOOSE c \in sets : \A e \in sets : MinOf(c) <= MinOf(e)
         IN  <<Ascending(first)>> \o ListsOf(sets \ {first})

\* GT.getSets(pairs): the connected components of the pairs, each an
\* ascending list
getSets(pairs) ==
    ListsOf({Connected(pairs, {pr[1]}) : pr \in Range(pairs)})

\* the pairs [i, j], i < j, of vectors at angle 0
hkls_pairs_index(h) ==
    LET nb_hkl == Len(h)
        ra == np_ravel(angles_eq_0(h))
        ind_in_flat_a == indices_in_flatTriuMatrix(nb_hkl)
        angle_pairs == Take(ra, ind_in_flat_a)
    IN  indices_in_TriuMatrix(Take(ind_in_flat_a, pos_zeros(angle_pairs)), nb_hkl)

\* np.sum(np.abs(v)) of one vector
sum_abshkl(v) == Abs(v[1]) + Abs(v[2]) + Abs(v[3])

\* fond_index with the last occurrence of the minimum
fond_index_last(h, clique) ==
    MaxOf({i \in 0..(Len(clique) - 1) : \A j \in 0..(Len(clique) - 1) :
              sum_abshkl(At(h, At(clique, i))) <= sum_abshkl(At(h, At(clique, j)))})

\* fond_index = np.argmin(np.sum(abshkl, axis=1)): the first position, in the
\* clique, of the smallest sum of absolute values
fond_index(h, clique) ==
    MinOf({i \in 0..(Len(clique) - 1) : \A j \in 0..(Len(clique) - 1) :
              sum_abshkl(At(h, At(clique, i))) <= sum_abshkl(At(h, At(clique, j)))})

\* tokeep appending fond_index instead of clique[fond_index]
tokeep_position(h, cl) == [c \in 1..Len(cl) |-> fond_index(h, cl[c])]

\* tokeep after the loop over the cliques
tokeep(h, cl) == [c \in 1..Len(cl) |-> At(cl[c], fond_index(h, cl[c]))]

\* allelem_in_cliques: the cliques one after the other
RECURSIVE allelem_in_cliques(_)
allelem_in_cliques(cl) ==
    IF cl = <<>> THEN <<>> ELSE Head(cl) \o allelem_in_cliques(Tail(cl))

\* A Python set of non-negative integers (CPython setobject.c): the table of
\* slots, each holding a key, 0 - 1 when unused or 0 - 2 when its key was
\* discarded; the hash of a non-negative integer is the integer
PySet_MINSIZE == 8
LINEAR_PROBES == 9
PERTURB_SHIFT == 5

\* the slot that holds key or the first unused slot of its probe sequence,
\* starting at slot i
RECURSIVE set_lookslot(_, _, _, _)
set_lookslot(table, key, i, perturb) ==
    LET mask == Len(table) - 1
        probes == IF i + LINEAR_PROBES <= mask THEN LINEAR_PROBES ELSE 0
        hits == {q \in i..(i + probes) : At(table, q) = 0 - 1 \/ At(table, q) = key}
        shifted == perturb \div (2 ^ PERTURB_SHIFT)
    IN  IF hits # {} THEN CHOOSE q \in hits : \A r \in hits : q <= r
        ELSE set_lookslot(table, key, (i * 5 + 1 + shifted) % (mask + 1), shifted)

\* set_insert_clean: key, known to be absent, put in a table without
\* discarded slots
set_insert_clean(table, key) ==
    [table EXCEPT ![set_lookslot(table, key, key % Len(table), key) + 1] = key]

\* the keys of the table, in the order of the slots
set_keys(table) ==
    LET active == {q \in 1..Len(table) : table[q] >= 0}
    IN  [p \in 1..Cardinality(active) |->
            table[CHOOSE q \in active : Cardinality({r \in active : r <= q}) = p]]

\* set_insert_clean of keys[p], keys[p + 1], ... one after the other, each
\* in the table that the one before has left
RECURSIVE set_insert_clean_from(_, _, _)
set_insert_clean_from(table, keys, p) ==
    IF p > Len(keys) THEN table
    ELSE LET inserted == set_insert_clean(table, keys[p])
         IN  IF Len(inserted) = Len(table)
             THEN set_insert_clean_from(inserted, keys, p + 1)
             ELSE inserted

set_insert_clean_all(table, keys) == set_insert_clean_from(table, keys, 1)

\* the size of the new table: PySet_MINSIZE doubled while it is <= minused
RECURSIVE set_newsize(_, _)
set_newsize(newsize, minused) ==
    IF newsize <= minused THEN set_newsize(newsize * 2, minused) ELSE newsize

\* set_table_resize: the keys put again, slot after slot, in a new table
set_table_resize(table, minused) ==
    set_insert_clean_all([q \in 1..set_newsize(PySet_MINSIZE, minused) |-> 0 - 1],
                         set_keys(table))

\* set_add_entry: key put in its slot, the table resized when 3/5 full
set_add_entry(table, key) ==
    LET slot == set_lookslot(table, key, key % Len(table), key)
        added == [table EXCEPT ![slot + 1] = key]
        fill == Cardinality({q \in 1..Len(added) : added[q] # 0 - 1})
        used == Len(set_keys(added))
    IN  IF At(table, slot) = key THEN table
        ELSE IF fill * 5 < (Len(table) - 1) * 3 THEN added
        ELSE set_table_resize(added, IF used > 50000 THEN used * 2 ELSE used * 4)

\* set_add_entry of keys[p], keys[p + 1], ... one after the other, each in
\* the table that the one before has left
RECURSIVE set_add_from(_, _, _)
set_add_from(table, keys, p) ==
    IF p > Len(keys) THEN table
    ELSE LET added == set_add_entry(table, keys[p])
         IN  IF Len(added) >= Len(table)
             THEN set_add_from(added, keys, p + 1)
             ELSE added

set_add_all(table, keys) == set_add_from(table, keys, 1)

\* set(l) for a list l
py_set(l) == set_add_all([q \in 1..PySet_MINSIZE |-> 0 - 1], l)

\* set_copy: set_merge of other into a new set
set_copy(other) ==
    LET used == Len(set_keys(other))
        empty == [q \in 1..PySet_MINSIZE |-> 0 - 1]
        so == IF used * 5 >= (PySet_MINSIZE - 1) * 3
              THEN set_table_resize(empty, used * 2)
              ELSE empty
    IN  IF Len(so) = Len(other) /\ \A q \in 1..Len(other) : other[q] # 0 - 2
        THEN other
        ELSE set_insert_clean_all(so, set_keys(other))

\* so - other: a copy of so with the keys of other discarded when so has more
\* than four times the keys of other, otherwise the keys of so that are not
\* in other added to a new set
set_difference(so, other) ==
    LET sokeys == set_keys(so)
        otherkeys == set_keys(other)
        copy == set_copy(so)
    IN  IF Len(sokeys) \div 4 > Len(otherkeys)
        THEN [q \in 1..Len(copy) |->
                 IF copy[q] \in Range(otherkeys) THEN 0 - 2 ELSE copy[q]]
        ELSE set_add_all([q \in 1..PySet_MINSIZE |-> 0 - 1],
                         set_keys([q \in 1..Len(so) |->
                                      IF so[q] \in Range(otherkeys) THEN 0 - 2 ELSE so[q]]))

\* toremove with the elements of the first clique only
toremove_firstclique(h, cl) ==
    set_keys(set_difference(py_set(Head(cl)), py_set(tokeep(h, cl))))

\* toremove = list(initial_set - set(tokeep)), initial_set being
\* set(allelem_in_cliques): the list follows the slots of the set
toremove(h, cl) ==
    set_keys(set_difference(py_set(allelem_in_cliques(cl)), py_set(tokeep(h, cl))))

\* np.delete keeping the rows of the list of indices instead of dropping them
np_delete_kept(h, index) ==
    LET kept == Ascending({i \in 0..(Len(h) - 1) : i \in Range(index)})
    IN  Take(h, kept)

\* np.delete(hkl, index, axis=0)
np_delete(h, index) ==
    LET kept == Ascending({i \in 0..(Len(h) - 1) : i \notin Range(index)})
    IN  Take(h, kept)

\* the value of cliques_of_harmonics when FilterHarmonics_2 returns, <<>> when
\* the function returns before binding it
harmonics_found(h) ==
    IF Len(h) = 1 \/ Len(hkls_pairs_index(h)) = 0 THEN <<>>
    ELSE getSets(hkls_pairs_index(h))

\* FilterHarmonics_2 returning hkl[0] for a list of one vector
FilterHarmonics_2_first(h, flag) ==
    IF Len(h) = 1 THEN [is_tuple |-> FALSE, filtered_hkl |-> h[1]]
    ELSE [is_tuple |-> FALSE, filtered_hkl |-> h]

\* FilterHarmonics_2(hkl, return_indices_toremove): the returned value is an
\* array (is_tuple FALSE) or the tuple (array, list of removed indices)
FilterHarmonics_2(h, flag) ==
    IF Len(h) = 1 THEN [is_tuple |-> FALSE, filtered_hkl |-> h]
    ELSE IF Len(hkls_pairs_index(h)) > 0
    THEN LET cl == getSets(hkls_pairs_index(h))
             filtered_hkl == np_delete(h, toremove(h, cl))
         IN  IF flag # 0
             THEN [is_tuple |-> TRUE, filtered_hkl |-> filtered_hkl,
                   toremove |-> toremove(h, cl)]
             ELSE [is_tuple |-> FALSE, filtered_hkl |-> filtered_hkl]
    ELSE IF flag # 0
         THEN [is_tuple |-> TRUE, filtered_hkl |-> h, toremove |-> <<>>]
         ELSE [is_tuple |-> FALSE, filtered_hkl |-> h]

\* a list of ten vectors with the harmonics [0,2,0] of [0,1,0] and [2,0,0] of
\* [1,0,0]: indices 1 and 9 meet in one slot of the set of indices
LongHkl == <<<<1, 0, 0>>, <<0, 1, 0>>, <<0, 2, 0>>, <<0, 0, 1>>, <<1, 1, 0>>,
            <<1, 0, 1>>, <<0, 1, 1>>, <<1, 1, 1>>, <<1, 2, 3>>, <<2, 0, 0>>>>

\* the lists of 1 to MaxHkl vectors, and the list of ten
HklLists == UNION {[1..n -> HklValues] : n \in 1..MaxHkl} \cup {LongHkl}

InitHarm ==
    /\ pc = "harm"
    /\ hkl \in HklLists
    /\ return_indices_toremove \in {0, 1}
    /\ cliques_of_harmonics = <<>>
    /\ ret = <<>>
    /\ ret2 = <<>>
    /\ angles = <<>>
    /\ datafile = <<>>
    /\ nb_asked = 0
    /\ mydata = <<>>
    /\ sorted_data = <<>>
    /\ nb_of_spots = 0
    /\ Tabledistance = <<>>
    /\ ar_distances = <<>>
    /\ ang_tol = 0
    /\ adjencymat = <<>>
    /\ cliques = <<>>
    /\ nodes = [isint |-> TRUE, v |-> 0]
    /\ C0 = <<>>
    /\ k = 0
    /\ best_list = <<>>
    /\ err = ""

\* the variables of the run of give_bestclique
graphvars == <<nb_of_spots, Tabledistance, ar_distances, ang_tol, adjencymat,
               cliques, nodes, C0, k, best_list, err>>

\* ret = FilterHarmonics_2(hkl, return_indices_toremove)
CallFilterHarmonics_2 ==
    /\ pc = "harm"
    /\ cliques_of_harmonics' = harmonics_found(hkl)
    /\ ret' = FilterHarmonics_2(hkl, return_indices_toremove)
    /\ pc' = "filtered"
    /\ angles' = IF Len(hkl) = 1 THEN <<>> ELSE AngleBetweenNormals(hkl, hkl, np_eye3)
    /\ UNCHANGED <<hkl, return_indices_toremove, ret2, graphvars, tablevars>>

\* ret2 = FilterHarmonics_2(the array of ret, return_indices_toremove)
CallFilterHarmonics_2_again ==
    /\ pc = "filtered"
    /\ ret2' = FilterHarmonics_2(ret.filtered_hkl, return_indices_toremove)
    /\ pc' = "refiltered"
    /\ UNCHANGED <<hkl, return_indices_toremove, cliques_of_harmonics, ret, angles,
                   graphvars, tablevars>>

NextHarm ==
    \/ CallFilterHarmonics_2
    \/ CallFilterHarmonics_2_again

SpecHarm == InitHarm /\ [][NextHarm]_vars

----------------------------------------------------------------------------
(* Vocabulary of the properties *)

\* the nodes of the graph built from adjencymat
NodeSet == 0..(Len(adjencymat) - 1)

\* AdjacencyMatrix[i][j] is true
Entry(i, j) == At(At(adjencymat, i), j) # 0

\* i and j are joined by an edge of the graph
Edge(i, j) == i # j /\ (Entry(i, j) \/ Entry(j, i))

\* every two distinct nodes of S are joined by an edge
IsGraphClique(S) == \A i \in S : \A j \in S : i # j => Edge(i, j)

\* the maximal cliques of the graph that include v
MaximalCliquesWith(v) ==
    {S \in SUBSET NodeSet :
        /\ v \in S
        /\ IsGraphClique(S)
        /\ \A w \in NodeSet \ S : ~IsGraphClique(S \cup {w})}

\* no entry of row v or of column v of the adjacency matrix is set
Isolated(v) == \A j \in NodeSet : ~Entry(v, j) /\ ~Entry(j, v)

StrictlyAscending(c) == \A p \in 1..(Len(c) - 1) : c[p] < c[p + 1]

\* the cliques are the same sets of nodes, in the same list order
SameCliqueSets(list, sets) ==
    /\ {Range(c) : c \in Range(list)} = sets
    /\ Len(list) = Cardinality(sets)
    /\ \A c \in Range(list) : Len(c) = Cardinality(Range(c))

\* the position (1-based) of the first clique of maximum length of a list
FirstLongest(list) ==
    MinOf({p \in 1..Len(list) : \A q \in 1..Len(list) : Len(list[q]) <= Len(list[p])})

\* the query has been given and is one node / a list of nodes
OneNodeQuery == pc \in {"cliques", "done", "error"} /\ err \notin {"IndexError", "UnboundLocalError"} /\ nodes.isint

ListQuery == pc \in {"cliques", "done", "error"} /\ err \notin {"IndexError", "UnboundLocalError"} /\ ~nodes.isint

\* the query names a node that is not in [0, N)
OutOfRangeQuery ==
    \/ OneNodeQuery /\ nodes.v \notin NodeSet
    \/ ListQuery /\ \E p \in 1..Len(nodes.l) : nodes.l[p] \notin NodeSet

----------------------------------------------------------------------------
(* Properties *)

\* C1: every clique returned by give_bestclique, for one node or for a list of
\* nodes, is pairwise fully connected: AdjacencyMatrix[i][j] is true for all
\* distinct i, j of the clique.
C1_ReturnedCliquesFullyConnected ==
    /\ (OneNodeQuery /\ pc = "done") =>
          \A i \in Range(best_list) : \A j \in Range(best_list) : i # j => Entry(i, j)
    /\ ListQuery =>
          \A p \in 1..Len(best_list) :
             \A i \in Range(best_list[p]) : \A j \in Range(best_list[p]) :
                i # j => Entry(i, j)

C1_Witness ==
    /\ OneNodeQuery /\ pc = "done"
    /\ Len(best_list) >= 3

\* C2: the clique returned for a node has maximum cardinality: no clique of the
\* graph that contains the node has strictly more members.  (In the loop over
\* a list of nodes, the clique at position p is the one computed from C0[p-1].)
C2_BestCliqueIsLargest ==
    /\ (OneNodeQuery /\ pc = "done") =>
          \A S \in SUBSET NodeSet :
             (nodes.v \in S /\ IsGraphClique(S)) => Cardinality(S) <= Len(best_list)
    /\ ListQuery =>
          \A p \in 1..Len(best_list) : \A S \in SUBSET NodeSet :
             ((p - 1) \in S /\ IsGraphClique(S)) => Cardinality(S) <= Len(best_list[p])

C2_Witness ==
    /\ OneNodeQuery /\ pc = "done"
    /\ Len(best_list) >= 3
    /\ \E p \in 1..Len(C0) : Len(C0[p]) < Len(best_list)

\* C3: when several cliques containing the node share the maximum cardinality,
\* the returned one is the first of them in the order of the clique list.
C3_TieGivesFirstInList ==
    /\ (OneNodeQuery /\ pc = "done") =>
          Range(best_list) = Range(C0[FirstLongest(C0)])
    /\ ListQuery =>
          \A p \in 1..Len(best_list) :
             Range(best_list[p]) = Range(C0[p - 1][FirstLongest(C0[p - 1])])

C3_Witness ==
    /\ OneNodeQuery /\ pc = "done"
    /\ \E p \in 1..Len(C0) : \E q \in 1..Len(C0) :
          /\ p < q
          /\ Len(C0[p]) = Len(best_list)
          /\ Len(C0[q]) = Len(best_list)
          /\ Range(C0[q]) # Range(best_list)

\* C4: the cliques found for a node of the graph are exactly the maximal
\* cliques of the graph that include it, each once; so the returned clique
\* contains the node.
C4_CliquesContainingAreTheMaximalOnes ==
    /\ (OneNodeQuery /\ nodes.v \in NodeSet) =>
          SameCliqueSets(C0, MaximalCliquesWith(nodes.v))
    /\ (OneNodeQuery /\ pc = "done") => nodes.v \in Range(best_list)
    /\ ListQuery =>
          \A v \in DOMAIN C0 \cap NodeSet : SameCliqueSets(C0[v], MaximalCliquesWith(v))

C4_Witness ==
    /\ OneNodeQuery /\ pc = "done"
    /\ Len(C0) >= 2
    /\ Len(cliques) > Len(C0)

\* C5: a returned clique is a strictly ascending sequence of node indices,
\* whatever the order in which the enumeration produced its members.
C5_ReturnedCliquesAscending ==
    /\ (OneNodeQuery /\ pc = "done") => StrictlyAscending(best_list)
    /\ ListQuery => \A p \in 1..Len(best_list) : StrictlyAscending(best_list[p])

C5_Witness ==
    /\ OneNodeQuery /\ pc = "done"
    /\ Len(best_list) >= 2
    /\ ~StrictlyAscending(C0[FirstLongest(C0)])

\* C6: a query with a list of nodes of the graph returns one clique per
\* queried node, in input order: the clique at position p contains nodes[p]
\* and is a largest clique containing it.
C6_OneCliquePerQueriedNodeInOrder ==
    (/\ ListQuery
     /\ pc \in {"done", "error"}
     /\ \A p \in 1..Len(nodes.l) : nodes.l[p] \in NodeSet)
    => /\ pc = "done"
       /\ Len(best_list) = Len(nodes.l)
       /\ \A p \in 1..Len(nodes.l) :
             /\ nodes.l[p] \in Range(best_list[p])
             /\ \A S \in MaximalCliquesWith(nodes.l[p]) :
                   Cardinality(S) <= Len(best_list[p])

\* C7: for a node without any edge in the adjacency matrix the query returns
\* the singleton clique of that node.
C7_IsolatedNodeGivesSingleton ==
    (OneNodeQuery /\ pc \in {"done", "error"} /\ nodes.v \in NodeSet /\ Isolated(nodes.v))
    => (pc = "done" /\ best_list = <<nodes.v>>)

C7_Witness ==
    /\ OneNodeQuery /\ pc = "done"
    /\ Isolated(nodes.v)
    /\ \E i \in NodeSet : \E j \in NodeSet : Edge(i, j)

\* C8: a query naming a node outside [0, N) never returns a clique: the step
\* that would compute the best clique of one such node raises, and the loop
\* over a list holding such a node never reaches its return.
C8_OutOfRangeQueryFails ==
    [][(pc = "cliques" /\ OutOfRangeQuery) =>
          /\ pc' # "done"
          /\ nodes.isint => (pc' = "error" /\ err' \in {"ValueError", "KeyError"}
                              /\ best_list' = <<>>)]_vars

C8_Witness ==
    /\ OneNodeQuery /\ pc = "error" /\ err = "ValueError"
    /\ nodes.v \notin NodeSet
    /\ Len(cliques) >= 2

\* C10: the matrix returned by create_AdjencyMatrix for a symmetric matrix of
\* distances is symmetric.
C10_AdjacencyMatrixSymmetric ==
    \A i \in NodeSet : \A j \in NodeSet : Entry(i, j) <=> Entry(j, i)

C10_Witness ==
    /\ pc = "adj"
    /\ Len(adjencymat) >= 3
    /\ \E i \in NodeSet : \E j \in NodeSet : i # j /\ Entry(i, j)
    /\ \E i \in NodeSet : \E j \in NodeSet : i # j /\ ~Entry(i, j)

\* the distance x has an entry of the table of possible distances within ang_tol
MatchesReference(x) ==
    \E r \in DOMAIN ar_distances : Abs(ar_distances[r] - x) <= ang_tol

\* the distance between spots i and j given to create_AdjencyMatrix
Distance(i, j) == At(At(Tabledistance, i), j)

\* create_AdjencyMatrix has returned
AdjencyMatrixBuilt == pc \in {"adj", "graph", "cliques", "done"}

\* C11: every off-diagonal cell of the matrix of create_AdjencyMatrix is true
\* if and only if the distance of that cell is within ang_tol (a difference
\* equal to ang_tol included) of an entry of the table, whatever the other
\* cells of the row or of the matrix are.
C11_CellDecidedByItsOwnDistance ==
    AdjencyMatrixBuilt =>
       /\ Len(adjencymat) = Len(Tabledistance)
       /\ \A i \in NodeSet : \A j \in NodeSet :
             i # j => (Entry(i, j) <=> MatchesReference(Distance(i, j)))

C11_Witness ==
    /\ pc = "adj"
    /\ ang_tol > 0
    /\ \E i \in NodeSet : \E j \in NodeSet : \E h \in NodeSet :
          /\ i # j /\ i # h /\ j # h
          /\ Entry(i, j)
          /\ \E r \in DOMAIN ar_distances : Abs(ar_distances[r] - Distance(i, j)) = ang_tol
          /\ ~Entry(i, h)

\* C12: with ang_tol = 0 a cell off the diagonal is true if and only if its
\* distance is equal to an entry of the table.
C12_ZeroToleranceIsExactMatch ==
    (AdjencyMatrixBuilt /\ ang_tol = 0) =>
       \A i \in NodeSet : \A j \in NodeSet :
          i # j => (Entry(i, j) <=> Distance(i, j) \in Range(ar_distances))

C12_Witness ==
    /\ pc = "adj"
    /\ ang_tol = 0
    /\ \E i \in NodeSet : \E j \in NodeSet : i # j /\ Entry(i, j)
    /\ \E i \in NodeSet : \E j \in NodeSet :
          /\ i # j /\ ~Entry(i, j)
          /\ \E r \in DOMAIN ar_distances : Abs(ar_distances[r] - Distance(i, j)) = 1

\* C13: with an empty table of possible distances create_AdjencyMatrix does
\* not fail and returns the matrix without any true cell; the best clique of
\* every spot is then the spot alone.
C13_EmptyTableGivesNoEdge ==
    (ar_distances = <<>> /\ pc # "table") =>
       /\ err # "IndexError"
       /\ Len(adjencymat) = nb_of_spots
       /\ \A i \in NodeSet : \A j \in NodeSet : ~Entry(i, j)
       /\ (pc \in {"done", "error"} /\ nodes.v \in NodeSet) =>
             (pc = "done" /\ best_list = <<nodes.v>>)

C13_Witness ==
    /\ ar_distances = <<>>
    /\ pc = "done"
    /\ Len(adjencymat) >= 3
    /\ ang_tol > 0
    /\ best_list = <<nodes.v>>

\* C14: a call with ang_tol < 0 reports an error and produces no adjacency
\* matrix and no clique.
C14_NegativeToleranceRejected ==
    (ang_tol < 0 /\ pc # "table") =>
       (pc = "error" /\ adjencymat = <<>> /\ best_list = <<>>)

----------------------------------------------------------------------------
(* Properties of FilterHarmonics_2 *)

\* vector product
Cross(a, b) == <<a[2] * b[3] - a[3] * b[2],
                a[3] * b[1] - a[1] * b[3],
                a[1] * b[2] - a[2] * b[1]>>

\* b is a positive multiple of a vector along a / a negative one
Parallel(a, b) == Cross(a, b) = <<0, 0, 0>> /\ Dot(a, b) > 0

Antiparallel(a, b) == Cross(a, b) = <<0, 0, 0>> /\ Dot(a, b) < 0

\* the indices of the input
HklIndices == 0..(Len(hkl) - 1)

\* the indices of the vectors parallel to the vector of index i
HarmonicGroup(i) == {j \in HklIndices : Parallel(At(hkl, i), At(hkl, j))}

\* sum of the absolute values of the components of the vector of index i
Weight(i) == Abs(At(hkl, i)[1]) + Abs(At(hkl, i)[2]) + Abs(At(hkl, i)[3])

\* the member of lowest index among those of smallest weight
Representative(G) == MinOf({i \in G : \A j \in G : Weight(i) <= Weight(j)})

\* FilterHarmonics_2 has returned
Filtered == pc \in {"filtered", "refiltered"}

\* the rows of the input whose indices are in S, in the order of the input
RowsOf(S) == [p \in 1..Cardinality(S) |-> At(hkl, Ascending(S)[p])]

\* C15: two antiparallel vectors of the input are never in the same group of
\* harmonics, a vector parallel to each is in the output, and one of them is
\* removed only when another vector, parallel to it, is kept.
C15_AntiparallelNeverGrouped ==
    Filtered =>
       \A i \in HklIndices : \A j \in HklIndices :
          Antiparallel(At(hkl, i), At(hkl, j)) =>
             /\ \A c \in 1..Len(cliques_of_harmonics) :
                   ~(i \in Range(cliques_of_harmonics[c])
                     /\ j \in Range(cliques_of_harmonics[c]))
             /\ \E p \in 1..Len(ret.filtered_hkl) :
                   Parallel(At(hkl, i), ret.filtered_hkl[p])
             /\ (ret.is_tuple /\ i \in Range(ret.toremove)) =>
                   \E m \in HklIndices \ Range(ret.toremove) :
                      m # i /\ Parallel(At(hkl, m), At(hkl, i))

C15_Witness ==
    /\ pc = "filtered"
    /\ hkl = <<(<<1, 1, 1>>), (<<2, 2, 2>>), (<<0 - 1, 0 - 1, 0 - 1>>)>>
    /\ ret.is_tuple
    /\ ret.filtered_hkl = <<(<<1, 1, 1>>), (<<0 - 1, 0 - 1, 0 - 1>>)>>
    /\ ret.toremove = <<1>>

\* C16: of every group of parallel vectors of more than one member,
\* FilterHarmonics_2 keeps the member of smallest sum of absolute values, the
\* one of lowest index when several have it, and removes all the others.
C16_KeepsSmallestOfEachGroup ==
    Filtered =>
       /\ ret.filtered_hkl =
             RowsOf({i \in HklIndices : i = Representative(HarmonicGroup(i))})
       /\ ret.is_tuple =>
             \A i \in HklIndices :
                i \in Range(ret.toremove) <=>
                   (/\ Cardinality(HarmonicGroup(i)) > 1
                    /\ i # Representative(HarmonicGroup(i)))

C16_Witness ==
    /\ pc = "filtered"
    /\ ret.is_tuple
    /\ \E i \in HklIndices : \E j \in HarmonicGroup(i) :
          /\ i < j
          /\ Weight(i) = Weight(j)
          /\ i = Representative(HarmonicGroup(i))
          /\ i # MinOf(HarmonicGroup(i))
          /\ j \in Range(ret.toremove)
          /\ i \notin Range(ret.toremove)

\* C17: the groups are the classes of mutually parallel vectors; the output
\* holds exactly one vector of each class, and no two vectors of the output
\* are parallel.
C17_OneVectorPerDirection ==
    Filtered =>
       /\ \A p \in 1..Len(ret.filtered_hkl) : \A q \in 1..Len(ret.filtered_hkl) :
             p # q => ~Parallel(ret.filtered_hkl[p], ret.filtered_hkl[q])
       /\ \A i \in HklIndices :
             Cardinality({p \in 1..Len(ret.filtered_hkl) :
                             Parallel(At(hkl, i), ret.filtered_hkl[p])}) = 1
       /\ Len(hkl) > 1 =>
             /\ {Range(cliques_of_harmonics[c]) : c \in 1..Len(cliques_of_harmonics)}
                   = {HarmonicGroup(i) : i \in {m \in HklIndices :
                                                   Cardinality(HarmonicGroup(m)) > 1}}
             /\ \A c \in 1..Len(cliques_of_harmonics) :
                   \A d \in 1..Len(cliques_of_harmonics) :
                      c # d => Range(cliques_of_harmonics[c])
                                  \cap Range(cliques_of_harmonics[d]) = {}

C17_Witness ==
    /\ pc = "filtered"
    /\ Len(hkl) = 4
    /\ Len(ret.filtered_hkl) = 2
    /\ \E c \in 1..Len(cliques_of_harmonics) : Len(cliques_of_harmonics[c]) = 3

\* C18: FilterHarmonics_2 applied to its own output returns that output and
\* removes no index.
C18_FilterIdempotent ==
    pc = "refiltered" =>
       /\ ret2.filtered_hkl = ret.filtered_hkl
       /\ ret2.is_tuple => ret2.toremove = <<>>

C18_Witness ==
    /\ pc = "refiltered"
    /\ Len(ret.filtered_hkl) >= 2
    /\ Len(ret.filtered_hkl) < Len(hkl)
    /\ ret2.is_tuple

\* C19: the output is the input without the removed indices, in the order of
\* the input; the list of removed indices has no duplicate, holds indices of
\* the input only, never the kept member of a group and never a vector that
\* is parallel to no other.
C19_OutputIsInputMinusRemoved ==
    Filtered =>
       \E R \in SUBSET HklIndices :
          /\ ret.filtered_hkl = RowsOf(HklIndices \ R)
          /\ ret.is_tuple =>
                /\ Range(ret.toremove) = R
                /\ Len(ret.toremove) = Cardinality(R)
          /\ \A i \in HklIndices :
                (HarmonicGroup(i) = {i} \/ i = Representative(HarmonicGroup(i)))
                   => i \notin R

C19_Witness ==
    /\ pc = "filtered"
    /\ ret.is_tuple
    /\ Len(ret.toremove) = 2
    /\ 0 \in Range(ret.toremove)
    /\ \E i \in HklIndices : HarmonicGroup(i) = {i}

\* C20: for a list of one vector FilterHarmonics_2 returns the list as it is
\* and removes nothing.
C20_SingleVectorUnchanged ==
    (Filtered /\ Len(hkl) = 1) =>
       /\ ret.filtered_hkl = hkl
       /\ ret.is_tuple => ret.toremove = <<>>

C20_Witness ==
    /\ pc = "filtered"
    /\ Len(hkl) = 1
    /\ return_indices_toremove = 1
    /\ ret.filtered_hkl = hkl

\* the rows and columns of angles
AngleIndices == 0..(Len(angles) - 1)

\* the angle, in thousandths of a degree, computed for the vectors i and j
Angle(i, j) == At(At(angles, i), j)

\* C21: in the matrix of angles of a list with itself under the identity
\* metric, the angle of a vector with itself or with a positive multiple of
\* it is 0, the angle with a negative multiple of it is 180 deg, and the
\* angle of i with j is the angle of j with i.
C21_AngleZeroFlatSymmetric ==
    (Filtered /\ Len(hkl) > 1) =>
       /\ Len(angles) = Len(hkl)
       /\ \A i \in AngleIndices : \A j \in AngleIndices :
             /\ Angle(i, i) = 0
             /\ Parallel(At(hkl, i), At(hkl, j)) => Angle(i, j) = 0
             /\ Antiparallel(At(hkl, i), At(hkl, j)) => Angle(i, j) = 180000
             /\ Angle(i, j) = Angle(j, i)
             /\ (Angle(i, j) = 0) <=> angle_eq_0(At(hkl, i), At(hkl, j))

C21_Witness ==
    /\ pc = "filtered"
    /\ \E i \in AngleIndices : \E j \in AngleIndices : \E m \in AngleIndices :
          /\ i # j /\ Angle(i, j) = 0
          /\ Angle(i, m) = 180000
          /\ Angle(j, m) = 180000
          /\ At(hkl, j) # At(hkl, i)
          /\ \E n \in AngleIndices : Angle(i, n) \notin {0, 90000, 180000}

\* C30: called with return_indices_toremove=1, FilterHarmonics_2 returns the
\* pair (filtered vectors, list of removed indices) for a list of one vector,
\* for a list without harmonics and for a list with harmonics.
C30_FlagAlwaysGivesPair ==
    (Filtered /\ return_indices_toremove = 1) => ret.is_tuple

----------------------------------------------------------------------------
(* Properties of TableDistance_exp and of the run of give_bestclique *)

\* TableDistance_exp has returned
TableBuilt == pc \in {"table", "adj"}

\* the data lines selected by TableDistance_exp
SelectedLines == {sorted_data[a].line : a \in 1..Len(sorted_data)}

\* C22: for every negative selection count TableDistance_exp selects all the
\* reflections read from the file and returns their full matrix of distances
\* and their number.
C22_NegativeCountSelectsAll ==
    (pc # "start" /\ nb_asked < 0 /\ Len(datafile.I) >= 2) =>
       /\ pc # "error"
       /\ nb_of_spots = Len(mydata)
       /\ Len(Tabledistance) = Len(mydata)
       /\ SelectedLines = {mydata[p].line : p \in 1..Len(mydata)}

\* the nodes reached from the nodes of S by edges of the graph
RECURSIVE ReachedFrom(_)
ReachedFrom(S) ==
    LET T == S \cup {w \in NodeSet : \E u \in S : Edge(u, w)}
    IN  IF T = S THEN S ELSE ReachedFrom(T)

\* the connected component of node v
ComponentOf(v) == ReachedFrom({v})

\* C23: the clique returned for a node holds only nodes of the connected
\* component of that node, all of them when the component is fully connected;
\* a returned clique never has nodes of two components.
C23_CliqueStaysInOneComponent ==
    /\ (OneNodeQuery /\ pc = "done" /\ nodes.v \in NodeSet) =>
          /\ Range(best_list) \subseteq ComponentOf(nodes.v)
          /\ IsGraphClique(ComponentOf(nodes.v)) =>
                Range(best_list) = ComponentOf(nodes.v)
    /\ ListQuery =>
          \A p \in 1..Len(best_list) :
             /\ \A u \in Range(best_list[p]) :
                   Range(best_list[p]) \subseteq ComponentOf(u)
             /\ (p - 1 \in NodeSet /\ IsGraphClique(ComponentOf(p - 1))) =>
                   Range(best_list[p]) = ComponentOf(p - 1)

C23_Witness ==
    /\ OneNodeQuery /\ pc = "done"
    /\ Cardinality(ComponentOf(nodes.v)) = 2
    /\ Range(best_list) = ComponentOf(nodes.v)
    /\ \E w \in NodeSet \ ComponentOf(nodes.v) : Cardinality(ComponentOf(w)) = 2

\* every node of the query is a node of the graph
ValidQuery ==
    \/ OneNodeQuery /\ nodes.v \in NodeSet
    \/ ListQuery /\ \A p \in 1..Len(nodes.l) : nodes.l[p] \in NodeSet

\* C24: a query on nodes of the graph that has ended has returned its
\* cliques or has reported ResourceExceeded; it has not ended by a crash.
C24_QueryEndsWithCliqueOrResourceExceeded ==
    (ValidQuery /\ pc = "error") => err = "ResourceExceeded"

\* C25: once built, the matrix of distances, the table of possible
\* distances, the adjacency matrix, the list of cliques and the cliques of
\* the query are changed by no later step.
C25_BuiltOnceNeverMutated ==
    [][/\ pc # "start" =>
             (Tabledistance' = Tabledistance /\ ar_distances' = ar_distances)
       /\ pc \notin {"start", "table"} => adjencymat' = adjencymat
       /\ pc \notin {"start", "table", "adj"} => cliques' = cliques
       /\ pc \notin {"start", "table", "adj", "graph"} => C0' = C0]_vars

C25_Witness ==
    /\ OneNodeQuery /\ pc = "done"
    /\ Len(Tabledistance) >= 3
    /\ Len(best_list) >= 2
    /\ \E p \in 1..Len(C0) : ~StrictlyAscending(C0[p]) /\ Range(C0[p]) = Range(best_list)

\* the data lines of the file, numbered from 0
FileLines == 0..(Len(datafile.I) - 1)

\* C26: for a positive selection count K and a file of N reflections,
\* TableDistance_exp selects the min(K, N) most intense reflections of the
\* file and numbers them by non-increasing intensity: node a of the matrix of
\* distances is the reflection of rank a, and no reflection of the file that
\* is left out is more intense than a selected one.
C26_MostIntenseFirst ==
    (pc # "start" /\ nb_asked > 0 /\ Len(datafile.I) >= 2) =>
       /\ TableBuilt
       /\ Len(sorted_data) = min(nb_asked, Len(datafile.I))
       /\ nb_of_spots = Len(sorted_data)
       /\ Len(Tabledistance) = Len(sorted_data)
       /\ SelectedLines \subseteq FileLines
       /\ Cardinality(SelectedLines) = Len(sorted_data)
       /\ \A a \in 1..Len(sorted_data) : \A b \in 1..Len(sorted_data) :
             /\ sorted_data[a].Intens = At(datafile.I, sorted_data[a].line)
             /\ a < b => sorted_data[a].Intens >= sorted_data[b].Intens
             /\ Tabledistance[a][b] =
                   At(At(datafile.dist, sorted_data[a].line), sorted_data[b].line)
       /\ \A r \in FileLines \ SelectedLines :
             \A a \in 1..Len(sorted_data) : At(datafile.I, r) <= sorted_data[a].Intens

\* C27: for a file of one header line and M data lines createrawdata returns
\* arrays of M elements, the first of them from the first data line.
C27_OneHeaderLineSkipped ==
    (pc # "start" /\ Len(datafile.I) >= 2) =>
       /\ Len(mydata) = Len(datafile.I)
       /\ mydata[1].line = 0

\* C28: no diagonal cell of the matrix returned by create_AdjencyMatrix is
\* set, whatever the table of possible distances and the tolerance.
C28_DiagonalNeverSet ==
    AdjencyMatrixBuilt => \A i \in NodeSet : ~Entry(i, i)

\* C29: the count given to create_AdjencyMatrix is the dimension of the
\* matrix of distances, also when the count asked for exceeds the number of
\* reflections; create_AdjencyMatrix then never writes outside the matrix,
\* and the cell of row i and column j is set exactly when the distance of i
\* and j matches the table.
C29_CountIsDimension ==
    /\ TableBuilt => nb_of_spots = Len(Tabledistance)
    /\ (pc = "error" /\ err = "IndexError") => createrawdata_fails(Len(datafile.I))
    /\ pc = "adj" =>
          /\ Len(adjencymat) = Len(Tabledistance)
          /\ \A i \in NodeSet : \A j \in NodeSet :
                Entry(i, j) <=> MatchesReference(Distance(i, j))

C29_Witness ==
    /\ pc = "adj"
    /\ nb_asked > Len(mydata)
    /\ Len(mydata) >= 3
    /\ \E j \in NodeSet : Entry(2, j)
    /\ \E j \in NodeSet \ {2} : ~Entry(2, j)

====
